---------------------------- MODULE Spec2Model ----------------------------
(***************************************************************************)
(* State-machine model of the "Infinite Scroll" backend (src/main.py,      *)
(* src/schemas.py): the static catalog endpoints and the POST /api/chat    *)
(* handler with its best-effort persistence and page numbering.            *)
(*                                                                         *)
(* Representation.                                                         *)
(*  - A string that comes from a request (message, season, username,       *)
(*    thread_id) is a sequence of one-character strings, so that           *)
(*    str.strip, str.lower and str.title act on characters as in Python.   *)
(*  - A string literal of the program is a TLA+ string; Str turns a        *)
(*    character sequence into one, and f-strings are \o concatenations.    *)
(*    The module is ASCII: the typographic apostrophes and the ellipsis    *)
(*    of the literals are written ' and ... here, the dash of the root     *)
(*    message is written -, and the status emoji of GET /test are left     *)
(*    out.                                                                 *)
(*  - Optional[T] is <<>> for None and <<v>> for a value v.                *)
(*  - random.random() is an integer number of thousandths in 0..999,       *)
(*    time.time() an integer number of tenths of a second.                 *)
(*  - Every chat request in flight has a slot q; the handler is split at   *)
(*    its two store calls, which are separate round trips to the store.    *)
(*  - The store adapter (module "database") is not part of src/; its       *)
(*    create/query operations follow the collaborator interface of the     *)
(*    specification (section 6).                                           *)
(***************************************************************************)
EXTENDS Integers, Sequences, FiniteSets, TLC

(***************************************************************************)
(* Bounds of the model.                                                    *)
(***************************************************************************)
\* chat requests handled (concurrently) in Spec
MaxRequests == 2
\* chat requests handled one at a time in SpecSeq
MaxSeqRequests == 3

MaxSlots == IF MaxRequests > MaxSeqRequests THEN MaxRequests ELSE MaxSeqRequests
Slots == 1..MaxSlots

(***************************************************************************)
(* Optional values and Python truthiness (the `x or default` idiom).       *)
(***************************************************************************)
None == <<>>
Some(v) == <<v>>
\* a str / list Optional is truthy when it is not None and not empty
Truthy(o) == o # None /\ o[1] # <<>>
\* a float Optional is truthy when it is not None and not zero
TruthyNum(o) == o # None /\ o[1] # 0
Or(o, default) == IF Truthy(o) THEN o[1] ELSE default

(***************************************************************************)
(* Python string methods on character sequences.                           *)
(***************************************************************************)
LOWERCASE == << "a","b","c","d","e","f","g","h","i","j","k","l","m",
                "n","o","p","q","r","s","t","u","v","w","x","y","z" >>
UPPERCASE == << "A","B","C","D","E","F","G","H","I","J","K","L","M",
                "N","O","P","Q","R","S","T","U","V","W","X","Y","Z" >>
WHITESPACE == {" ", "\t", "\n", "\r"}

IsUpper(c) == \E k \in DOMAIN UPPERCASE : UPPERCASE[k] = c
IsLower(c) == \E k \in DOMAIN LOWERCASE : LOWERCASE[k] = c
IsCased(c) == IsUpper(c) \/ IsLower(c)

lower_char(c) ==
    IF IsUpper(c) THEN LOWERCASE[CHOOSE k \in DOMAIN UPPERCASE : UPPERCASE[k] = c]
    ELSE c
upper_char(c) ==
    IF IsLower(c) THEN UPPERCASE[CHOOSE k \in DOMAIN LOWERCASE : LOWERCASE[k] = c]
    ELSE c

\* str.lower()
lower(s) == [i \in DOMAIN s |-> lower_char(s[i])]

\* str.title(): a cased character is upper-cased when it starts a word
\* (follows no cased character) and lower-cased otherwise
title(s) ==
    [i \in DOMAIN s |->
        IF i = 1 \/ ~IsCased(s[i - 1]) THEN upper_char(s[i]) ELSE lower_char(s[i])]

RECURSIVE lstrip(_)
lstrip(s) == IF s # <<>> /\ Head(s) \in WHITESPACE THEN lstrip(Tail(s)) ELSE s
RECURSIVE rstrip(_)
rstrip(s) ==
    IF s # <<>> /\ s[Len(s)] \in WHITESPACE THEN rstrip(SubSeq(s, 1, Len(s) - 1))
    ELSE s
\* str.strip()
strip(s) == rstrip(lstrip(s))

\* the program string spelled by a character sequence
RECURSIVE StrFrom(_, _)
StrFrom(s, k) == IF k > Len(s) THEN "" ELSE s[k] \o StrFrom(s, k + 1)
Str(s) == StrFrom(s, 1)

(***************************************************************************)
(* Content seeds (src/main.py 25-35) and the site information.             *)
(***************************************************************************)
BOOKS_SEED ==
    << [title |-> "The Cradle", year |-> 2009,
        description |-> "A tender Midwestern odyssey about love, promises, and departures.",
        slug |-> "the-cradle",
        palette |-> <<"#e3f2fd", "#f5f0e6", "#9b6b43", "#fff4b2">>],
       [title |-> "This Bright River", year |-> 2012,
        description |-> "A return to Wisconsin water and memory, a heat-haze of contradictions.",
        slug |-> "this-bright-river",
        palette |-> <<"#fff7cc", "#1e3a5f", "#ffb26b">>],
       [title |-> "The Universe in Miniature in Miniature", year |-> 2010,
        description |-> "Cosmic play in small models, nested realities and tender jokes.",
        slug |-> "tuimim",
        palette |-> <<"#1a1a1a", "#ff6b6b", "#f7c4e4", "#111827">>],
       [title |-> "Trouble: Stories", year |-> 2006,
        description |-> "Stark rooms, winter light, difficult truths in quiet air.",
        slug |-> "trouble-stories",
        palette |-> <<"#ffffff", "#111827", "#b0b8c1", "#c41e3a">>] >>

TV_SEED ==
    << [title |-> "Maniac", role |-> "Writer / Executive Producer"],
       [title |-> "Station Eleven", role |-> "Creator / Showrunner"] >>

SITE_INFO ==
    [author |->
        [name |-> "Patrick Somerville",
         bio |-> "Author of Trouble, The Cradle, This Bright River, and The Universe in Miniature in Miniature; "
                 \o "creator of Station Eleven; always walking toward the horizon."],
     navigation |-> <<"About", "Books", "TV", "Dev", "Space">>]

ROOT_MESSAGE == [message |-> "Patrick Somerville - The Infinite Scroll API"]

(***************************************************************************)
(* Voice pools and tempos (src/main.py 85-104).                            *)
(***************************************************************************)
SURFACE_VOICE ==
    << "Thanks for stopping by. What can I show you?",
       "Happy you're here. Which book are you curious about?",
       "Welcome. We can wander the seasons together.",
       "I can open a page, or we can just talk about stories." >>

SUBSURFACE_WHISPERS ==
    << "This river feels familiar. I used to stand near one.",
       "Winter makes it harder to pretend.",
       "If you hear a page echo twice, don't worry. That's just me.",
       "The other Patrick is... doing fine. I think." >>

SEASON_TEMPOS ==
    [k \in {"spring", "summer", "autumn", "winter"} |->
        CASE k = "spring" -> "warm and steady"
          [] k = "summer" -> "expansive and shimmering"
          [] k = "autumn" -> "playful and cosmic"
          [] k = "winter" -> "quiet and precise"]

GREETING == "Hello. I'm Gary. I'll guide you."
GREETING_WORDS == {"hi", "hello", "hey"}


(***************************************************************************)
(* Request inputs.  ChatRequest (src/main.py 39-44): message is a str, the *)
(* other fields are Optional.                                              *)
(***************************************************************************)
Messages ==
    { <<"h","i">>,
      <<" ","H","e","l","l","o","\n">>,
      <<"H","E","Y">>,
      <<"h","i","y","a">>,
      <<"h","e","y"," ","u">>,
      <<>> }
Seasons ==
    { None,
      Some(<<>>),
      Some(<<"w","i","n","t","e","r">>),
      Some(<<"W","I","N","T","E","R">>),
      Some(<<"S","u","m","m","e","r">>),
      Some(<<"a","u","t","u","m","n">>),
      Some(<<"S","P","R","I","N","G">>),
      Some(<<"M","o","n","s","o","o","n">>) }
ThreadIds == { None, Some(<<>>), Some(<<"t","1">>), Some(<<"t","2">>) }
Usernames == { None, Some(<<"a","n","n">>) }
\* depth in tenths
Depths == { Some(0), Some(5) }

ChatRequest(m, s, d, u, t) ==
    [message |-> m, season |-> s, depth |-> d, username |-> u, thread_id |-> t]

\* values of random.random(), in thousandths: around both thresholds
Draws == {0, 19, 20, 21, 49, 50, 999}
\* values of time.time(), in tenths of a second
Times == {0, 69, 70, 139, 1700000005, 1762173169}

\* SpecOne enumerates every message, season, draw and time
OneRequests ==
    { ChatRequest(m, s, Some(0), None, t) :
        m \in Messages, s \in Seasons, t \in {None, Some(<<>>), Some(<<"t","1">>)} }

\* Spec, SpecSeq and SpecCatalog enumerate every thread_id, with one message
\* and season, a draw on each side of the threshold, two times and the first
\* entry of each voice pool
StoreRequests ==
    { ChatRequest(<<"h","i">>, None, Some(0), None, t) : t \in ThreadIds }
StoreDraws == {0, 999}
StorePool(pool) == SubSeq(pool, 1, 1)

\* SpecCatalog enumerates every endpoint, with or without a thread_id
CatalogRequests == {rq \in StoreRequests : rq.thread_id \in {None, Some(<<"t","1">>)}}
CatalogDraws == {999}
CatalogTimes == {69}
StoreTimes == {69, 70}

(***************************************************************************)
(* The chat handler's computations (src/main.py 107-152).                  *)
(***************************************************************************)
SPRING == <<"s","p","r","i","n","g">>

\* variant: the season is not lower-cased
normalize_season_nolower(s) == Or(s, SPRING)

\* season = (req.season or "spring").lower()
normalize_season(s) == lower(Or(s, SPRING))

\* tempo = SEASON_TEMPOS.get(season, "warm and steady")
tempo_for(season) ==
    IF Str(season) \in DOMAIN SEASON_TEMPOS THEN SEASON_TEMPOS[Str(season)]
    ELSE "warm and steady"

\* variant: the draw is compared with <=
maybe_slip_le(season, r) ==
    LET base == IF Str(season) = "winter" THEN 50 ELSE 20
    IN  r <= base

\* random.random() < base, base 0.02 and 0.05 in winter; r in thousandths
maybe_slip(season, r) ==
    LET base == IF Str(season) = "winter" THEN 50 ELSE 20
    IN  r < base

\* random.choice(pool): any entry of the pool
random_choice(pool) == {pool[i] : i \in DOMAIN pool}

\* variant: the message is not stripped before the comparison
surface_line_nostrip(message, voice) ==
    IF Str(lower(message)) \in GREETING_WORDS THEN {GREETING}
    ELSE random_choice(voice)

\* the surface line: the greeting, or random.choice(SURFACE_VOICE); the
\* set of the values the branch taken can produce, voice being the pool
surface_line(message, voice) ==
    IF Str(lower(strip(message))) \in GREETING_WORDS THEN {GREETING}
    ELSE random_choice(voice)

\* reply = f"{surface}\n\nIn {season.title()}, my pace is {tempo}."
base_reply(sf, season, tp) ==
    sf \o "\n\n" \o "In " \o Str(title(season)) \o ", my pace is " \o tp \o "."

\* variant: the whisper is appended whatever slip is
append_whisper_always(rp, sl, whispers) ==
    {rp \o "\n\n" \o w : w \in random_choice(whispers)}

\* if slip: reply += f"\n\n{random.choice(SUBSURFACE_WHISPERS)}"; the set
\* of the values the branch taken can produce, whispers being the pool
append_whisper(rp, sl, whispers) ==
    IF sl THEN {rp \o "\n\n" \o w : w \in random_choice(whispers)} ELSE {rp}

\* variant: thread_id is not passed to the document
ChatMessage_nothread(rq, season) ==
    [username  |-> Or(rq.username, <<"v","i","s","i","t","o","r">>),
     content   |-> rq.message,
     season    |-> season,
     depth     |-> IF TruthyNum(rq.depth) THEN rq.depth[1] ELSE 0,
     thread_id |-> None]

\* doc = ChatMessage(username=..., content=..., season=..., depth=..., thread_id=...)
ChatMessage(rq, season) ==
    [username  |-> Or(rq.username, <<"v","i","s","i","t","o","r">>),
     content   |-> rq.message,
     season    |-> season,
     depth     |-> IF TruthyNum(rq.depth) THEN rq.depth[1] ELSE 0,
     thread_id |-> IF Truthy(rq.thread_id) THEN rq.thread_id ELSE None]

\* variant: `if req.thread_id is not None`
has_thread_not_none(rq) == rq.thread_id # None

\* ... if req.thread_id else []
has_thread(rq) == Truthy(rq.thread_id)

\* variant: the + 1 is missing
page_count_nobase(msgs) == Len(msgs)

\* page_number = len(msgs) + 1
page_count(msgs) == Len(msgs) + 1

\* variant: the + 1 is missing
fallback_page_nobase(t) == (t % 70) \div 10

\* page_number = int(time.time() % 7) + 1; t in tenths of a second
fallback_page(t) == ((t % 70) \div 10) + 1

ChatResponse(rp, sl, season, pn) ==
    [reply |-> rp, slip |-> sl, season |-> season, page_number |-> pn]

(***************************************************************************)
(* The document store adapter: collaborator interface of the               *)
(* specification.  A collection is the sequence of its documents in        *)
(* insertion order; the id of a document is its position.                  *)
(***************************************************************************)
create_document(coll, doc) == Append(coll, doc)
inserted_id(coll) == Len(coll) + 1
get_documents(coll, filter) ==
    SelectSeq(coll, LAMBDA d : d.thread_id = filter.thread_id)

(***************************************************************************)
(* State.                                                                  *)
(***************************************************************************)
VARIABLES
    BOOKS,          \* the module-level list BOOKS
    TV,             \* the module-level list TV
    chatmessage,    \* the "chatmessage" collection of the store
    http,           \* the last response of a non-chat endpoint, None at start
    pc,             \* per slot: "new", "create", "query", "done"
    req,            \* per slot: the ChatRequest
    season, tempo, slip, surface, reply, page_number,   \* per slot: chat's locals
    doc_id,         \* per slot: Optional id returned by create_document
    draw,           \* per slot: the value random.random() returned
    now,            \* per slot: Optional value time.time() returned (except branch)
    qlen,           \* per slot: Optional size of the collection when queried
    raised,         \* per slot: the store call that raised: "none", "create", "query"
    response        \* per slot: Optional ChatResponse returned

locals == <<req, season, tempo, slip, surface, reply, draw>>
catalog == <<BOOKS, TV, http>>
vars == <<BOOKS, TV, chatmessage, http, pc, req, season, tempo, slip, surface,
          reply, page_number, doc_id, draw, now, qlen, raised, response>>

Init ==
    /\ BOOKS = BOOKS_SEED
    /\ TV = TV_SEED
    /\ chatmessage = <<>>
    /\ http = None
    /\ pc = [q \in Slots |-> "new"]
    /\ req = [q \in Slots |-> None]
    /\ season = [q \in Slots |-> <<>>]
    /\ tempo = [q \in Slots |-> ""]
    /\ slip = [q \in Slots |-> FALSE]
    /\ surface = [q \in Slots |-> ""]
    /\ reply = [q \in Slots |-> ""]
    /\ page_number = [q \in Slots |-> 0]
    /\ doc_id = [q \in Slots |-> None]
    /\ draw = [q \in Slots |-> 0]
    /\ now = [q \in Slots |-> None]
    /\ qlen = [q \in Slots |-> None]
    /\ raised = [q \in Slots |-> "none"]
    /\ response = [q \in Slots |-> None]

(***************************************************************************)
(* POST /api/chat, lines 117-135: the request arrives in slot q and the    *)
(* reply is composed.  Slots are taken in order.                           *)
(***************************************************************************)
chat_compose(q, rq, r, voice, whispers) ==
    /\ pc[q] = "new"
    /\ \A p \in 1..(q - 1) : pc[p] # "new"
    /\ LET s  == normalize_season(rq.season)
           tp == tempo_for(s)
           sl == maybe_slip(s, r)
       IN  \E sf \in surface_line(rq.message, voice) :
           \E rp \in append_whisper(base_reply(sf, s, tp), sl, whispers) :
               /\ req' = [req EXCEPT ![q] = rq]
               /\ season' = [season EXCEPT ![q] = s]
               /\ tempo' = [tempo EXCEPT ![q] = tp]
               /\ draw' = [draw EXCEPT ![q] = r]
               /\ slip' = [slip EXCEPT ![q] = sl]
               /\ surface' = [surface EXCEPT ![q] = sf]
               /\ reply' = [reply EXCEPT ![q] = rp]
    /\ page_number' = [page_number EXCEPT ![q] = 1]
    /\ pc' = [pc EXCEPT ![q] = "create"]
    /\ UNCHANGED <<catalog, chatmessage, doc_id, now, qlen, raised, response>>

\* variant: slip is left to its default
chat_return_noslip(q, pn) ==
    /\ page_number' = [page_number EXCEPT ![q] = pn]
    /\ response' = [response EXCEPT ![q] =
                        Some([reply |-> reply[q], slip |-> FALSE,
                              season |-> season[q], page_number |-> pn])]
    /\ pc' = [pc EXCEPT ![q] = "done"]

\* return ChatResponse(reply=reply, slip=slip, season=season, page_number=page_number)
chat_return(q, pn) ==
    /\ page_number' = [page_number EXCEPT ![q] = pn]
    /\ response' = [response EXCEPT ![q] =
                        Some(ChatResponse(reply[q], slip[q], season[q], pn))]
    /\ pc' = [pc EXCEPT ![q] = "done"]

\* except Exception: page_number = int(time.time() % 7) + 1
chat_except(q, t) ==
    /\ now' = [now EXCEPT ![q] = Some(t)]
    /\ chat_return(q, fallback_page(t))

\* lines 137-144, create_document returns
chat_create_ok(q) ==
    /\ pc[q] = "create"
    /\ chatmessage' = create_document(chatmessage, ChatMessage(req[q], season[q]))
    /\ doc_id' = [doc_id EXCEPT ![q] = Some(inserted_id(chatmessage))]
    /\ pc' = [pc EXCEPT ![q] = "query"]
    /\ UNCHANGED <<catalog, locals, page_number, now, qlen, raised, response>>

\* lines 137-144, create_document raises
chat_create_fail(q, t) ==
    /\ pc[q] = "create"
    /\ raised' = [raised EXCEPT ![q] = "create"]
    /\ chat_except(q, t)
    /\ UNCHANGED <<catalog, locals, chatmessage, doc_id, qlen>>

\* variant: the thread is counted as it was before the insert
chat_query_ok_before(q) ==
    /\ pc[q] = "query"
    /\ has_thread(req[q])
    /\ LET msgs == get_documents(SubSeq(chatmessage, 1, doc_id[q][1] - 1),
                                 [thread_id |-> req[q].thread_id])
       IN  chat_return(q, page_count(msgs))
    /\ qlen' = [qlen EXCEPT ![q] = Some(Len(chatmessage))]
    /\ UNCHANGED <<catalog, locals, chatmessage, doc_id, now, raised>>

\* lines 146-147 and 152, req.thread_id truthy and get_documents returns
chat_query_ok(q) ==
    /\ pc[q] = "query"
    /\ has_thread(req[q])
    /\ LET msgs == get_documents(chatmessage, [thread_id |-> req[q].thread_id])
       IN  chat_return(q, page_count(msgs))
    /\ qlen' = [qlen EXCEPT ![q] = Some(Len(chatmessage))]
    /\ UNCHANGED <<catalog, locals, chatmessage, doc_id, now, raised>>

\* lines 146-152, req.thread_id truthy and get_documents raises
chat_query_fail(q, t) ==
    /\ pc[q] = "query"
    /\ has_thread(req[q])
    /\ raised' = [raised EXCEPT ![q] = "query"]
    /\ chat_except(q, t)
    /\ UNCHANGED <<catalog, locals, chatmessage, doc_id, qlen>>

\* lines 146-147 and 152, req.thread_id None or empty: msgs = []
chat_no_query(q) ==
    /\ pc[q] = "query"
    /\ ~has_thread(req[q])
    /\ chat_return(q, page_count(<<>>))
    /\ UNCHANGED <<catalog, locals, chatmessage, doc_id, now, qlen, raised>>

(***************************************************************************)
(* The other endpoints (src/main.py 55-81, 156-188).                       *)
(***************************************************************************)
chat_state == <<chatmessage, pc, req, season, tempo, slip, surface, reply,
                page_number, doc_id, draw, now, qlen, raised, response>>

Serve(endpoint, body) ==
    /\ http' = Some([endpoint |-> endpoint, body |-> body])
    /\ UNCHANGED <<BOOKS, TV, chat_state>>

root == Serve("/", ROOT_MESSAGE)

\* variant: the list is reversed in place before it is returned
list_books_reversing ==
    /\ BOOKS' = [k \in DOMAIN BOOKS |-> BOOKS[Len(BOOKS) + 1 - k]]
    /\ http' = Some([endpoint |-> "/api/books", body |-> BOOKS'])
    /\ UNCHANGED <<TV, chat_state>>

list_books == Serve("/api/books", BOOKS)
list_tv == Serve("/api/tv", TV)
site_info == Serve("/api/site", SITE_INFO)

\* GET /test: db is None, or lists its collections, or raises; the two
\* environment variables are set or not
test_database(db, url, name) ==
    Serve("/test",
          [backend |-> "Running",
           database |-> CASE db = "none" -> "Available but not initialized"
                          [] db = "working" -> "Connected & Working"
                          [] db = "erroring" -> "Connected but Error",
           connection_status |-> IF db = "none" THEN "Not Connected" ELSE "Connected",
           collections |-> IF db = "working" /\ chatmessage # <<>>
                           THEN <<"chatmessage">> ELSE <<>>,
           database_url |-> IF url THEN "Set" ELSE "Not Set",
           database_name |-> IF name THEN "Set" ELSE "Not Set"])

(***************************************************************************)
(* Specifications.                                                         *)
(***************************************************************************)
\* Spec: up to MaxRequests chat requests in flight at once; the store may
\* fail at either call.
Next ==
    \E q \in 1..MaxRequests :
        \/ \E rq \in StoreRequests, r \in StoreDraws :
                chat_compose(q, rq, r, StorePool(SURFACE_VOICE), StorePool(SUBSURFACE_WHISPERS))
        \/ chat_create_ok(q)
        \/ \E t \in StoreTimes : chat_create_fail(q, t)
        \/ chat_query_ok(q)
        \/ \E t \in StoreTimes : chat_query_fail(q, t)
        \/ chat_no_query(q)

Spec == Init /\ [][Next]_vars

\* SpecSeq: a working store and up to MaxSeqRequests chat requests handled
\* one at a time: a request arrives only when no other is in flight.
Idle == \A p \in Slots : pc[p] \in {"new", "done"}

NextSeq ==
    \E q \in 1..MaxSeqRequests :
        \/ /\ Idle
           /\ \E rq \in StoreRequests, r \in StoreDraws :
                chat_compose(q, rq, r, StorePool(SURFACE_VOICE), StorePool(SUBSURFACE_WHISPERS))
        \/ chat_create_ok(q)
        \/ chat_query_ok(q)
        \/ chat_no_query(q)

SpecSeq == Init /\ [][NextSeq]_vars

\* SpecOne: one chat request, drawn from every message, season, random
\* draw, pool index and time; the store may fail at either call.
NextOne ==
    \/ \E rq \in OneRequests, r \in Draws :
            chat_compose(1, rq, r, SURFACE_VOICE, SUBSURFACE_WHISPERS)
    \/ chat_create_ok(1)
    \/ \E t \in Times : chat_create_fail(1, t)
    \/ chat_query_ok(1)
    \/ \E t \in Times : chat_query_fail(1, t)
    \/ chat_no_query(1)

SpecOne == Init /\ [][NextOne]_vars

\* SpecCatalog: every endpoint; chat requests one at a time, the store may
\* fail at either call.
NextCatalog ==
    \/ root
    \/ list_books
    \/ list_tv
    \/ site_info
    \/ \E db \in {"none", "working", "erroring"}, url \in BOOLEAN, name \in BOOLEAN :
            test_database(db, url, name)
    \/ \E q \in 1..MaxRequests :
        \/ /\ Idle
           /\ \E rq \in CatalogRequests, r \in CatalogDraws :
                chat_compose(q, rq, r, StorePool(SURFACE_VOICE), StorePool(SUBSURFACE_WHISPERS))
        \/ chat_create_ok(q)
        \/ \E t \in CatalogTimes : chat_create_fail(q, t)
        \/ chat_query_ok(q)
        \/ \E t \in CatalogTimes : chat_query_fail(q, t)
        \/ chat_no_query(q)

SpecCatalog == Init /\ [][NextCatalog]_vars

(***************************************************************************)
(* Properties.                                                             *)
(***************************************************************************)
Done(q) == pc[q] = "done"
Resp(q) == response[q][1]
\* positions, among the first n documents of the collection, of thread t
ThreadDocs(t, n) == {k \in 1..n : chatmessage[k].thread_id = t}
\* the request's season, lower-cased, spells word
SeasonSpells(rq, word) == rq.season # None /\ Str(lower(rq.season[1])) = word
NoUpper(s) == \A i \in DOMAIN s : ~IsUpper(s[i])

\* C1 (SpecOne): whenever create_document or get_documents raised, the call
\* still returned a ChatResponse, whose page_number is (unix time mod 7) + 1,
\* in 1..7, and whose reply, slip and season are the composer's values.
C1_DegradedPath ==
    \A q \in Slots :
        raised[q] # "none" =>
            /\ Done(q)
            /\ response[q] # None
            /\ now[q] # None
            /\ LET seconds == now[q][1] \div 10
               IN  /\ Resp(q).page_number = (seconds % 7) + 1
                   /\ Resp(q).page_number \in 1..7
            /\ Resp(q).reply = reply[q]
            /\ Resp(q).slip = slip[q]
            /\ Resp(q).slip = (draw[q] < IF SeasonSpells(req[q], "winter") THEN 50 ELSE 20)
            /\ Resp(q).season = season[q]
            /\ Resp(q).season = normalize_season(req[q].season)

\* C1 witness: the document was created, the query raised at a time whose
\* second is 6 mod 7, and the reply carries a whisper.
C1_Witness ==
    \E q \in Slots :
        /\ Done(q) /\ raised[q] = "query" /\ doc_id[q] # None
        /\ Resp(q).page_number = 7 /\ Resp(q).slip

\* C2 (SpecOne): whatever the request and the store outcome, the handler never
\* stops short of its return (each store call can return or raise, and the
\* handler goes on in both cases), and the ChatResponse it returns has an
\* integer page_number >= 1.
C2_AlwaysResponds ==
    \A q \in Slots :
        /\ pc[q] \in {"new", "create", "query", "done"}
        /\ pc[q] = "create" =>
                /\ ENABLED chat_create_ok(q)
                /\ \A t \in Times : ENABLED chat_create_fail(q, t)
        /\ pc[q] = "query" =>
                IF Truthy(req[q].thread_id)
                THEN /\ ENABLED chat_query_ok(q)
                     /\ \A t \in Times : ENABLED chat_query_fail(q, t)
                ELSE ENABLED chat_no_query(q)
        /\ Done(q) =>
                /\ response[q] # None
                /\ Resp(q).page_number \in Nat
                /\ Resp(q).page_number >= 1
                /\ Resp(q).page_number = page_number[q]

\* C2 witness: create_document raised at a time whose second is 0 mod 7, and
\* the response carries the smallest page number.
C2_Witness ==
    \E q \in Slots :
        /\ Done(q) /\ raised[q] = "create" /\ req[q].thread_id = Some(<<>>)
        /\ Resp(q).page_number = 1

\* C3 (Spec): on the success path, with a thread_id the handler queried the
\* collection and page_number is the number of documents of that thread in
\* the collection as queried, plus 1; with no thread_id (None or empty) it
\* issued no query and page_number is 1.
C3_SuccessPage ==
    \A q \in Slots :
        (Done(q) /\ raised[q] = "none") =>
            /\ doc_id[q] # None
            /\ IF Truthy(req[q].thread_id)
               THEN /\ qlen[q] # None
                    /\ Resp(q).page_number =
                          Cardinality(ThreadDocs(req[q].thread_id, qlen[q][1])) + 1
               ELSE /\ qlen[q] = None
                    /\ Resp(q).page_number = 1

\* C3 witness: a request with a thread_id found two documents in the
\* collection, one of them of another thread (or of none), and got page 2.
C3_Witness ==
    \E q \in Slots :
        /\ Done(q) /\ raised[q] = "none" /\ Truthy(req[q].thread_id)
        /\ qlen[q] = Some(2)
        /\ Resp(q).page_number = 2

\* C4 as claimed (SpecOne): the response's season is lower-cased, and is
\* "spring" whenever the request's season is absent or not a recognized one.
C4_Original ==
    \A q \in Slots :
        Done(q) =>
            /\ NoUpper(Resp(q).season)
            /\ (\/ req[q].season = None
                \/ Str(lower(req[q].season[1])) \notin {"spring", "summer", "autumn", "winter"})
               => Str(Resp(q).season) = "spring"

\* C4 amended (SpecOne): the response's season is lower-cased; it is "spring"
\* whenever the request's season is absent or empty, and otherwise it is the
\* request's season, recognized or not, with its upper-case letters replaced
\* by their lower-case ones.
C4_SeasonEchoed ==
    \A q \in Slots :
        Done(q) =>
            /\ NoUpper(Resp(q).season)
            /\ IF req[q].season = None \/ req[q].season = Some(<<>>)
               THEN Str(Resp(q).season) = "spring"
               ELSE LET given == req[q].season[1]
                        sent  == Resp(q).season
                    IN  /\ Len(sent) = Len(given)
                        /\ \A i \in DOMAIN given :
                              \/ ~IsUpper(given[i]) /\ sent[i] = given[i]
                              \/ \E k \in DOMAIN UPPERCASE :
                                    UPPERCASE[k] = given[i] /\ LOWERCASE[k] = sent[i]

\* C4 witness: an unrecognized season with an upper-case letter came back
\* lower-cased, not as "spring".
C4_Witness ==
    \E q \in Slots :
        /\ Done(q)
        /\ req[q].season = Some(<<"M","o","n","s","o","o","n">>)
        /\ Str(Resp(q).season) = "monsoon"

\* C5 (SpecOne): slip is true exactly when the draw is below the threshold,
\* which is 0.05 exactly when the lower-cased request season is "winter" and
\* 0.02 otherwise (absent and unrecognized seasons included).
C5_SlipThreshold ==
    \A q \in Slots :
        pc[q] # "new" =>
            LET threshold == IF SeasonSpells(req[q], "winter") THEN 50 ELSE 20
            IN  /\ slip[q] = (draw[q] < threshold)
                /\ Done(q) => Resp(q).slip = (draw[q] < threshold)

\* C5 witness: season "WINTER" and a draw between the two thresholds slipped.
C5_Witness ==
    \E q \in Slots :
        /\ Done(q)
        /\ req[q].season = Some(<<"W","I","N","T","E","R">>)
        /\ draw[q] = 49
        /\ Resp(q).slip

\* C6 (SpecOne): when the message, trimmed and lower-cased, is "hi", "hello"
\* or "hey", the surface line is the fixed greeting; for every other message
\* it is one of the four entries of the surface pool, and not the greeting.
C6_SurfaceLine ==
    \A q \in Slots :
        pc[q] # "new" =>
            IF Str(lower(strip(req[q].message))) \in {"hi", "hello", "hey"}
            THEN surface[q] = "Hello. I'm Gary. I'll guide you."
            ELSE /\ \E i \in 1..4 : surface[q] = SURFACE_VOICE[i]
                 /\ Len(SURFACE_VOICE) = 4
                 /\ surface[q] # "Hello. I'm Gary. I'll guide you."

\* C6 witness: " Hello" followed by a newline was answered with the greeting.
C6_Witness ==
    \E q \in Slots :
        /\ Done(q)
        /\ req[q].message = <<" ","H","e","l","l","o","\n">>
        /\ surface[q] = GREETING

C8_CatalogReadOnly ==
    /\ BOOKS = BOOKS_SEED
    /\ TV = TV_SEED
    /\ http # None =>
        LET served == http[1]
        IN  /\ served.endpoint = "/api/books" => served.body = BOOKS_SEED
            /\ served.endpoint = "/api/tv" => served.body = TV_SEED
            /\ served.endpoint = "/api/site" => served.body = SITE_INFO

\* C8 witness: the books are served after a chat request that was persisted
\* and one whose create raised.
C8_Witness ==
    /\ http # None /\ http[1].endpoint = "/api/books"
    /\ \E q \in Slots : Done(q) /\ raised[q] = "none"
    /\ \E q \in Slots : Done(q) /\ raised[q] = "create"

\* two persisted messages of one thread, p inserted first, both answered on
\* the success path
SameThreadPair(p, q) ==
    /\ p # q
    /\ Done(p) /\ Done(q)
    /\ raised[p] = "none" /\ raised[q] = "none"
    /\ Truthy(req[p].thread_id) /\ req[p].thread_id = req[q].thread_id
    /\ doc_id[p][1] < doc_id[q][1]

\* C9 (Spec): two persisted messages of one thread get equal page numbers
\* only when their store steps interleaved, the message inserted first being
\* counted after the other was inserted; and they do get equal page numbers
\* whenever both counted the same collection.
C9_EqualPagesOnlyInterleaved ==
    \A p, q \in Slots :
        SameThreadPair(p, q) =>
            /\ Resp(p).page_number = Resp(q).page_number => qlen[p][1] >= doc_id[q][1]
            /\ qlen[p] = qlen[q] => Resp(p).page_number = Resp(q).page_number

\* C9 witness: two distinct persisted messages of one thread answered with
\* the same page number.
C9_Witness ==
    \E p, q \in Slots :
        /\ SameThreadPair(p, q)
        /\ chatmessage[doc_id[p][1]].thread_id = chatmessage[doc_id[q][1]].thread_id
        /\ Resp(p).page_number = Resp(q).page_number

\* C10 (SpecSeq): with a working store and one request at a time, the k-th
\* message sent to a thread is answered with page k + 1; so the page numbers
\* of a thread increase strictly and none is 1.
C10_SequentialPages ==
    \A q \in Slots :
        (Done(q) /\ Truthy(req[q].thread_id)) =>
            LET k == Cardinality({p \in 1..q : req[p].thread_id = req[q].thread_id})
            IN  /\ Resp(q).page_number = k + 1
                /\ Resp(q).page_number # 1
                /\ \A p \in 1..(q - 1) :
                      (Done(p) /\ req[p].thread_id = req[q].thread_id)
                          => Resp(p).page_number < Resp(q).page_number

\* C10 witness: the second message of a thread, sent after a message of
\* another thread, is answered with page 3.
C10_Witness ==
    \E q \in Slots :
        /\ Done(q) /\ q = 3
        /\ req[1].thread_id = req[3].thread_id
        /\ Truthy(req[2].thread_id) /\ req[2].thread_id # req[3].thread_id
        /\ Resp(q).page_number = 3

=============================================================================
